---- MODULE Spec2Model ----
(***************************************************************************)
(* State-machine model of VstpManager (vstp_manager.py): the schedule      *)
(* store with its two indices, the validity gate and the lookups; and of   *)
(* the pure functions classify_service and should_alert_for_service        *)
(* (service_classifier.py) and get_next_scheduled_stop, one call each.     *)
(***************************************************************************)
EXTENDS Integers, Sequences, FiniteSets, TLC

(***************************************************************************)
(* Bounds of the model.                                                    *)
(***************************************************************************)
\* process_vstp_message is called at most MaxMessages times.
MaxMessages == 3
\* date.today() takes the values 1..MaxDay (day 1 is 2025-12-28).
MaxDay == 2

(***************************************************************************)
(* Python values.  Missing is a key that the dict does not have, NoneVal   *)
(* is None (a JSON null).                                                  *)
(***************************************************************************)
Missing == "<missing>"
NoneVal == "<None>"

\* dict.get(key, default) on a field value
DictGet(value, default) == IF value = Missing THEN default ELSE value

\* bool(dict.get(key)) of a text field: a missing key, None and "" are falsy
Truthy(value) == value \notin {Missing, NoneVal, ""}

\* dict.get(key, default) on a dict modelled as a function
Lookup(dict, key, default) == IF key \in DOMAIN dict THEN dict[key] ELSE default

(***************************************************************************)
(* Dates.  A date field is text; strptime(text, "%Y-%m-%d") yields a day   *)
(* or raises ValueError.                                                   *)
(***************************************************************************)
Calendar ==
    [text \in {"2025-12-28", "2025-12-29", "2025-12-30", "2025-12-31"} |->
        CASE text = "2025-12-28" -> 1
          [] text = "2025-12-29" -> 2
          [] text = "2025-12-30" -> 3
          [] text = "2025-12-31" -> 4]

StrptimeRaises(text) == text \notin DOMAIN Calendar

Strptime(text) == Calendar[text]

(***************************************************************************)
(* Schedule payloads (JsonScheduleV1) and their locations.                 *)
(***************************************************************************)
\* a schedule_location entry that is a dict
Location(identity) == [is_dict |-> TRUE, train_identity |-> identity]
\* a schedule_location entry that is no dict (it has no .get)
NotADict == [is_dict |-> FALSE, train_identity |-> Missing]

\* the schedule_location field: a list, a JSON null, or no such key
LocationList(items) == [kind |-> "list", items |-> items]
NullLocations == [kind |-> NoneVal, items |-> <<>>]
MissingLocations == [kind |-> Missing, items |-> <<>>]

Payload(kind, uid, start, end, locations) ==
    [transaction_type |-> kind,
     CIF_train_uid |-> uid,
     schedule_start_date |-> start,
     schedule_end_date |-> end,
     schedule_location |-> locations]

NoPayload == Payload(Missing, Missing, Missing, Missing, MissingLocations)

\* message["JsonScheduleV1"] present, null, or no such key
Message(payload) == [envelope |-> "present", JsonScheduleV1 |-> payload]
NullEnvelope == [envelope |-> NoneVal, JsonScheduleV1 |-> NoPayload]
NoEnvelope == [envelope |-> Missing, JsonScheduleV1 |-> NoPayload]

(***************************************************************************)
(* The events of the feed that the model ingests.                          *)
(***************************************************************************)
UIDs == {"X", "Y"}
Headcodes == {"1A01", "1B02"}
QueryHeadcodes == Headcodes \cup {"9Z99"}

OnlyA == LocationList(<<Location("1A01")>>)

\* every transaction kind with every unique id, undated, one headcode
KindFamily ==
    {Payload(kind, uid, Missing, Missing, OnlyA) :
        kind \in {Missing, NoneVal, "Create", "Update", "Delete", "Replace"},
        uid \in {Missing, NoneVal, "", "X", "Y"}}

\* undated updates of X with every shape of location list
IndexLocations ==
    {LocationList(<<Location("1B02")>>),
     LocationList(<<Location("1A01"), Location(Missing), Location(""),
                    Location("1B02"), Location(NoneVal), Location("1A01")>>),
     LocationList(<<Location("1A01"), NotADict>>),
     LocationList(<<>>),
     NullLocations,
     MissingLocations}

IndexFamily ==
    {Payload("Update", "X", Missing, Missing, locations) :
        locations \in IndexLocations}

\* creates of X with every validity window: dates missing, empty, not in the
\* format YYYY-MM-DD, and days 1 and 2
DateTexts == {Missing, "", "28/12/2025", "2025-12-28", "2025-12-29"}

ValidityFamily ==
    {Payload("Create", "X", start, end, OnlyA) :
        start \in DateTexts, end \in DateTexts}

Messages ==
    {Message(p) : p \in KindFamily \cup IndexFamily \cup ValidityFamily}
        \cup {NullEnvelope, NoEnvelope}

(***************************************************************************)
(* State.                                                                  *)
(***************************************************************************)
VARIABLES
    _schedules_by_uid,       \* dict: train uid -> schedule
    _schedules_by_headcode,  \* defaultdict(list): headcode -> list of schedules
    _message_count,
    _schedule_count,
    today,                   \* date.today()
    last                     \* the last call made on the manager and its outcome

vars == <<_schedules_by_uid, _schedules_by_headcode, _message_count,
          _schedule_count, today, last>>

EmptyDict == [k \in {} |-> NoPayload]

\* the last call and its outcome: the log lines it wrote, the exception it
\* raised, and whether it repeats the message of the call before it
Call(op, message, log, raised, repeated) ==
    [op |-> op, message |-> message, log |-> log, raised |-> raised,
     repeated |-> repeated]

(***************************************************************************)
(* dict operations                                                         *)
(***************************************************************************)
\* dict[key] = value
Put(dict, key, value) ==
    [k \in DOMAIN dict \cup {key} |-> IF k = key THEN value ELSE dict[k]]

\* dict.pop(key, None), the dict that is left
Pop(dict, key) == [k \in DOMAIN dict \ {key} |-> dict[k]]

\* the result of a helper or of the handler: the store it leaves, the log
\* lines it wrote, and the exception it raised ("None" when it returned)
Result(by_uid, by_headcode, count, log, raised) ==
    [by_uid |-> by_uid, by_headcode |-> by_headcode, schedule_count |-> count,
     log |-> log, raised |-> raised]

(***************************************************************************)
(* _is_schedule_valid_today (lines 155-179)                                *)
(***************************************************************************)
\* the try block raises (strptime on unparseable text)
ValidityCheckRaises(schedule) ==
    /\ Truthy(schedule.schedule_start_date)
    /\ Truthy(schedule.schedule_end_date)
    /\ \/ StrptimeRaises(schedule.schedule_start_date)
       \/ StrptimeRaises(schedule.schedule_end_date)

\* mutant: the end of the window is never compared with today
ValidToday_IgnoresEnd(schedule, day) ==
    IF ~Truthy(schedule.schedule_start_date) \/ ~Truthy(schedule.schedule_end_date)
    THEN TRUE
    ELSE IF ValidityCheckRaises(schedule)
    THEN TRUE
    ELSE Strptime(schedule.schedule_start_date) <= day

\* mutant: the start of the window is never compared with today
ValidToday_IgnoresStart(schedule, day) ==
    IF ~Truthy(schedule.schedule_start_date) \/ ~Truthy(schedule.schedule_end_date)
    THEN TRUE
    ELSE IF ValidityCheckRaises(schedule)
    THEN TRUE
    ELSE day <= Strptime(schedule.schedule_end_date)

_is_schedule_valid_today(schedule, day) ==
    IF ~Truthy(schedule.schedule_start_date) \/ ~Truthy(schedule.schedule_end_date)
    THEN TRUE
    ELSE IF ValidityCheckRaises(schedule)
    THEN TRUE
    ELSE /\ Strptime(schedule.schedule_start_date) <= day
         /\ day <= Strptime(schedule.schedule_end_date)

(***************************************************************************)
(* _extract_headcodes (lines 181-198)                                      *)
(***************************************************************************)
\* schedule.get("schedule_location", []): iterating None raises TypeError,
\* location.get on an entry that is no dict raises AttributeError
ExtractRaised(schedule) ==
    LET locations == schedule.schedule_location
    IN  IF locations.kind = NoneVal THEN "TypeError"
        ELSE IF \E i \in 1..Len(locations.items) : ~locations.items[i].is_dict
        THEN "AttributeError"
        ELSE "None"

_extract_headcodes(schedule) ==
    LET items == schedule.schedule_location.items
    IN  {items[i].train_identity :
            i \in {j \in 1..Len(items) : Truthy(items[j].train_identity)}}

\* [s for s in schedules if s.get("CIF_train_uid") != train_uid]
WithoutUid(schedules, train_uid) ==
    LET Other(s) == DictGet(s.CIF_train_uid, NoneVal) # train_uid
    IN  SelectSeq(schedules, Other)

(***************************************************************************)
(* _store_schedule (lines 94-130)                                          *)
(***************************************************************************)
\* mutant: the old entry of the same uid is kept in the list
StoreUnderHeadcode_KeepsOldEntry(by_headcode, headcode, schedule, train_uid) ==
    Append(Lookup(by_headcode, headcode, <<>>), schedule)

\* lines 114-121, for one headcode of the new schedule
StoreUnderHeadcode(by_headcode, headcode, schedule, train_uid) ==
    Append(WithoutUid(Lookup(by_headcode, headcode, <<>>), train_uid), schedule)

_store_schedule(schedule, day, by_uid, by_headcode, count) ==
    LET train_uid == DictGet(schedule.CIF_train_uid, NoneVal)
        warned == IF ValidityCheckRaises(schedule)
                  THEN <<"Error checking schedule validity">> ELSE <<>>
    IN  IF ~_is_schedule_valid_today(schedule, day)
        THEN Result(by_uid, by_headcode, count,
                    <<"Schedule not valid for today, skipping">>, "None")
        ELSE LET stored == Put(by_uid, train_uid, schedule)
                 headcodes == _extract_headcodes(schedule)
             IN  IF ExtractRaised(schedule) # "None"
                 THEN Result(stored, by_headcode, count, warned,
                             ExtractRaised(schedule))
                 ELSE Result(stored,
                             [h \in DOMAIN by_headcode \cup headcodes |->
                                 IF h \in headcodes
                                 THEN StoreUnderHeadcode(by_headcode, h, schedule,
                                                         train_uid)
                                 ELSE by_headcode[h]],
                             Cardinality(DOMAIN stored),
                             warned \o <<"Stored VSTP schedule">>, "None")

(***************************************************************************)
(* _delete_schedule (lines 132-153)                                        *)
(***************************************************************************)
\* mutant: a list left empty keeps its key
StripHeadcodes_KeepsEmptyList(by_headcode, headcodes, train_uid) ==
    [h \in DOMAIN by_headcode |->
        IF h \in headcodes
        THEN WithoutUid(by_headcode[h], train_uid)
        ELSE by_headcode[h]]

\* lines 145-150: the headcode index after stripping train_uid from the
\* lists of `headcodes`; a list left empty loses its key
StripHeadcodes(by_headcode, headcodes, train_uid) ==
    LET Stripped(h) == WithoutUid(Lookup(by_headcode, h, <<>>), train_uid)
    IN  [h \in {k \in DOMAIN by_headcode :
                    k \in headcodes => Stripped(k) # <<>>} |->
            IF h \in headcodes THEN Stripped(h) ELSE by_headcode[h]]

_delete_schedule(train_uid, by_uid, by_headcode, count) ==
    IF train_uid \notin DOMAIN by_uid
    THEN Result(by_uid, by_headcode, count, <<>>, "None")
    ELSE LET schedule == by_uid[train_uid]
             popped == Pop(by_uid, train_uid)
         IN  IF ExtractRaised(schedule) # "None"
             THEN Result(popped, by_headcode, count, <<>>, ExtractRaised(schedule))
             ELSE Result(popped,
                         StripHeadcodes(by_headcode, _extract_headcodes(schedule),
                                        train_uid),
                         Cardinality(DOMAIN popped),
                         <<"Deleted VSTP schedule">>, "None")

(***************************************************************************)
(* process_vstp_message (lines 43-92), after the message count is bumped   *)
(***************************************************************************)
\* mutant: an unknown transaction kind is stored like a create
process_vstp_message_StoresUnknownKind(message, day, by_uid, by_headcode, count) ==
    LET schedule == message.JsonScheduleV1
        transaction_type == DictGet(schedule.transaction_type, "Create")
        train_uid == DictGet(schedule.CIF_train_uid, NoneVal)
    IN  IF message.envelope = Missing
        THEN Result(by_uid, by_headcode, count,
                    <<"VSTP message missing JsonScheduleV1 key">>, "None")
        ELSE IF message.envelope = NoneVal
        THEN Result(by_uid, by_headcode, count, <<>>, "AttributeError")
        ELSE IF ~Truthy(train_uid)
        THEN Result(by_uid, by_headcode, count,
                    <<"VSTP schedule missing train_uid">>, "None")
        ELSE IF transaction_type = "Delete"
        THEN _delete_schedule(train_uid, by_uid, by_headcode, count)
        ELSE _store_schedule(schedule, day, by_uid, by_headcode, count)

process_vstp_message(message, day, by_uid, by_headcode, count) ==
    LET schedule == message.JsonScheduleV1
        transaction_type == DictGet(schedule.transaction_type, "Create")
        train_uid == DictGet(schedule.CIF_train_uid, NoneVal)
    IN  IF message.envelope = Missing
        THEN Result(by_uid, by_headcode, count,
                    <<"VSTP message missing JsonScheduleV1 key">>, "None")
        ELSE IF message.envelope = NoneVal
        THEN Result(by_uid, by_headcode, count, <<>>, "AttributeError")
        ELSE IF ~Truthy(train_uid)
        THEN Result(by_uid, by_headcode, count,
                    <<"VSTP schedule missing train_uid">>, "None")
        ELSE IF transaction_type = "Delete"
        THEN _delete_schedule(train_uid, by_uid, by_headcode, count)
        ELSE IF transaction_type \in {"Create", "Update"}
        THEN _store_schedule(schedule, day, by_uid, by_headcode, count)
        ELSE Result(by_uid, by_headcode, count,
                    <<"Unknown VSTP transaction type">>, "None")

(***************************************************************************)
(* Queries (lines 200-235, 304-315)                                        *)
(***************************************************************************)
get_schedule_for_uid(uid) == Lookup(_schedules_by_uid, uid, NoPayload)

get_all_schedules_for_headcode(headcode) ==
    Lookup(_schedules_by_headcode, headcode, <<>>)

\* NoPayload stands for None
get_schedule_for_headcode(headcode) ==
    LET schedules == Lookup(_schedules_by_headcode, headcode, <<>>)
    IN  IF schedules # <<>> THEN schedules[1] ELSE NoPayload

get_statistics ==
    [total_messages |-> _message_count,
     total_schedules |-> _schedule_count,
     schedules_by_uid |-> Cardinality(DOMAIN _schedules_by_uid),
     unique_headcodes |-> Cardinality(DOMAIN _schedules_by_headcode)]

(***************************************************************************)
(* Actions                                                                 *)
(***************************************************************************)
Init ==
    /\ _schedules_by_uid = EmptyDict
    /\ _schedules_by_headcode = [k \in {} |-> <<>>]
    /\ _message_count = 0
    /\ _schedule_count = 0
    /\ today = 1
    /\ last = Call("__init__", NoEnvelope, <<"VSTP Manager initialized">>, "None",
                   FALSE)

\* one call of process_vstp_message, to its return or to the exception that
\* leaves it
Ingest(message) ==
    /\ _message_count < MaxMessages
    /\ LET r == process_vstp_message(message, today, _schedules_by_uid,
                                     _schedules_by_headcode, _schedule_count)
       IN  /\ _message_count' = _message_count + 1
           /\ _schedules_by_uid' = r.by_uid
           /\ _schedules_by_headcode' = r.by_headcode
           /\ _schedule_count' = r.schedule_count
           /\ last' = Call("process_vstp_message", message, r.log, r.raised,
                           /\ last.op = "process_vstp_message"
                           /\ last.message = message)
    /\ UNCHANGED today

\* clear_cache without the clear() of the headcode index
clear_cache_KeepsHeadcodeIndex ==
    /\ _schedules_by_uid' = EmptyDict
    /\ _schedule_count' = 0
    /\ last' = Call("clear_cache", NoEnvelope, <<"VSTP cache cleared">>, "None",
                   FALSE)
    /\ UNCHANGED <<_schedules_by_headcode, _message_count, today>>

\* clear_cache (lines 317-322)
clear_cache ==
    /\ _schedules_by_uid' = EmptyDict
    /\ _schedules_by_headcode' = [k \in {} |-> <<>>]
    /\ _schedule_count' = 0
    /\ last' = Call("clear_cache", NoEnvelope, <<"VSTP cache cleared">>, "None",
                   FALSE)
    /\ UNCHANGED <<_message_count, today>>

\* a lookup by a caller: dict.get reads the indices and adds no key
Query ==
    /\ last' = Call("lookup", NoEnvelope, <<>>, "None", FALSE)
    /\ UNCHANGED <<_schedules_by_uid, _schedules_by_headcode, _message_count,
                   _schedule_count, today>>

\* the caller's clock passes midnight
Tick ==
    /\ today < MaxDay
    /\ today' = today + 1
    /\ last' = Call("date.today", NoEnvelope, <<>>, "None", FALSE)
    /\ UNCHANGED <<_schedules_by_uid, _schedules_by_headcode, _message_count,
                   _schedule_count>>

Next ==
    \/ \E message \in Messages : Ingest(message)
    \/ clear_cache
    \/ Query
    \/ Tick

Spec == Init /\ [][Next]_vars

(***************************************************************************)
(* Vocabulary of the properties                                            *)
(***************************************************************************)
\* the schedules listed under a headcode, as a set
Listed(by_headcode, headcode) ==
    LET schedules == Lookup(by_headcode, headcode, <<>>)
    IN  {schedules[i] : i \in 1..Len(schedules)}

UidOf(schedule) == DictGet(schedule.CIF_train_uid, NoneVal)

\* the last call was process_vstp_message
Ingested == last.op = "process_vstp_message"

\* the payload of the last ingested event and its transaction kind
LastPayload == last.message.JsonScheduleV1
KindOf(schedule) == DictGet(schedule.transaction_type, "Create")

\* the last call ingested a create/update that carries a unique id
IngestedCreateOrUpdate ==
    /\ Ingested
    /\ last.message.envelope = "present"
    /\ KindOf(LastPayload) \in {"Create", "Update"}
    /\ Truthy(LastPayload.CIF_train_uid)

(***************************************************************************)
(* C1: for every headcode h of the secondary index and every schedule s in *)
(* h's list, s's unique id is a key of the primary index and s's location  *)
(* list carries h.                                                         *)
(***************************************************************************)
C1_SecondaryPointsIntoPrimary ==
    \A h \in DOMAIN _schedules_by_headcode :
        \A s \in Listed(_schedules_by_headcode, h) :
            /\ UidOf(s) \in DOMAIN _schedules_by_uid
            /\ h \in _extract_headcodes(s)

(***************************************************************************)
(* C2: for every schedule s of the primary index and every non-empty       *)
(* headcode h carried by one of s's locations, the secondary index has a   *)
(* list under h that contains the stored record s.                         *)
(***************************************************************************)
C2_PrimaryListedUnderItsHeadcodes ==
    \A uid \in DOMAIN _schedules_by_uid :
        \A h \in _extract_headcodes(_schedules_by_uid[uid]) :
            /\ h \in DOMAIN _schedules_by_headcode
            /\ _schedules_by_uid[uid] \in Listed(_schedules_by_headcode, h)

(***************************************************************************)
(* C3: immediately after a delete event for id X is ingested (and has      *)
(* returned), lookup_by_uid(X) returns none and no list of the secondary   *)
(* index contains a schedule whose id is X.                                *)
(***************************************************************************)
C3_DeleteThenLookup ==
    ( /\ Ingested
      /\ last.message.envelope = "present"
      /\ KindOf(LastPayload) = "Delete"
      /\ Truthy(LastPayload.CIF_train_uid)
      /\ last.raised = "None" )
    => /\ get_schedule_for_uid(UidOf(LastPayload)) = NoPayload
       /\ \A h \in DOMAIN _schedules_by_headcode :
             \A s \in Listed(_schedules_by_headcode, h) :
                 UidOf(s) # UidOf(LastPayload)

(***************************************************************************)
(* Validity windows as the properties speak of them                        *)
(***************************************************************************)
\* a date that is present and written YYYY-MM-DD
WellFormed(text) == Truthy(text) /\ ~StrptimeRaises(text)

BothWellFormed(schedule) ==
    /\ WellFormed(schedule.schedule_start_date)
    /\ WellFormed(schedule.schedule_end_date)

StartsAfter(schedule, day) ==
    /\ WellFormed(schedule.schedule_start_date)
    /\ Strptime(schedule.schedule_start_date) > day

EndsBefore(schedule, day) ==
    /\ WellFormed(schedule.schedule_end_date)
    /\ Strptime(schedule.schedule_end_date) < day

Straddles(schedule, day) ==
    /\ BothWellFormed(schedule)
    /\ Strptime(schedule.schedule_start_date) <= day
    /\ day <= Strptime(schedule.schedule_end_date)

HasNoDates(schedule) ==
    /\ ~Truthy(schedule.schedule_start_date)
    /\ ~Truthy(schedule.schedule_end_date)

\* the indices are as they were before the step
IndicesUnchanged ==
    /\ _schedules_by_uid' = _schedules_by_uid
    /\ _schedules_by_headcode' = _schedules_by_headcode

\* every schedule that some lookup returns: lookup_by_uid of a stored id,
\* lookup_by_headcode and lookup_all_by_headcode of any headcode
Returned ==
    ({get_schedule_for_uid(uid) : uid \in UIDs}
        \cup {get_schedule_for_headcode(h) : h \in QueryHeadcodes}
        \cup UNION {Listed(_schedules_by_headcode, h) : h \in QueryHeadcodes})
    \ {NoPayload}

(***************************************************************************)
(* C4 as claimed: a create/update payload ingested on day T whose start    *)
(* date is after T or whose end date is before T is placed in neither      *)
(* index; one whose dates straddle T, or that has no dates, is stored in   *)
(* the primary index under its id.                                         *)
(***************************************************************************)
C4_ValidityGatingAsClaimed ==
    [][IngestedCreateOrUpdate' =>
        /\ (StartsAfter(LastPayload', today) \/ EndsBefore(LastPayload', today))
              => IndicesUnchanged
        /\ (Straddles(LastPayload', today) \/ HasNoDates(LastPayload'))
              => Lookup(_schedules_by_uid', UidOf(LastPayload'), NoPayload) = LastPayload'
      ]_vars

(***************************************************************************)
(* C4 amended: a create/update payload ingested on day T whose start and   *)
(* end dates are both present and well-formed, and whose start date is     *)
(* after T or whose end date is before T, is placed in neither index; one  *)
(* whose dates straddle T, or that has no dates, is stored in the primary  *)
(* index under its id.                                                     *)
(***************************************************************************)
C4_ValidityGating ==
    [][IngestedCreateOrUpdate' =>
        /\ ( /\ BothWellFormed(LastPayload')
             /\ \/ StartsAfter(LastPayload', today)
                \/ EndsBefore(LastPayload', today) )
              => IndicesUnchanged
        /\ (Straddles(LastPayload', today) \/ HasNoDates(LastPayload'))
              => Lookup(_schedules_by_uid', UidOf(LastPayload'), NoPayload) = LastPayload'
      ]_vars

\* a dated create/update was ingested on a day outside its window
C4_Witness ==
    /\ IngestedCreateOrUpdate
    /\ BothWellFormed(LastPayload)
    /\ EndsBefore(LastPayload, today)
    /\ _schedules_by_uid # EmptyDict

NoDuplicateUid ==
    \A h \in DOMAIN _schedules_by_headcode :
        LET schedules == _schedules_by_headcode[h]
        IN  \A i, j \in 1..Len(schedules) :
                i # j => UidOf(schedules[i]) # UidOf(schedules[j])

C6_IngestTwiceIsIngestOnce ==
    [][/\ (IngestedCreateOrUpdate' /\ last'.repeated) => IndicesUnchanged
       /\ NoDuplicateUid'
      ]_vars

\* a create/update was stored and then ingested again
C6_Witness ==
    /\ IngestedCreateOrUpdate
    /\ last.repeated
    /\ last.log = <<"Stored VSTP schedule">>
    /\ \E h \in DOMAIN _schedules_by_headcode :
          LastPayload \in Listed(_schedules_by_headcode, h)

(***************************************************************************)
(* C7: after a valid create/update for id X replaces an earlier stored     *)
(* payload for X, lookup_by_uid(X) returns the new payload and neither     *)
(* lookup_by_headcode nor lookup_all_by_headcode returns the earlier       *)
(* payload, for any headcode.                                              *)
(***************************************************************************)
C7_UpdateReplacesWholesale ==
    [][( /\ IngestedCreateOrUpdate'
         /\ last'.raised = "None"
         /\ _is_schedule_valid_today(LastPayload', today)
         /\ UidOf(LastPayload') \in DOMAIN _schedules_by_uid
         /\ _schedules_by_uid[UidOf(LastPayload')] # LastPayload' )
       => /\ Lookup(_schedules_by_uid', UidOf(LastPayload'), NoPayload) = LastPayload'
          /\ \A h \in QueryHeadcodes :
                _schedules_by_uid[UidOf(LastPayload')]
                    \notin Listed(_schedules_by_headcode', h)
      ]_vars

(***************************************************************************)
(* C8: no key of the secondary index maps to an empty list.                *)
(***************************************************************************)
C8_NoEmptyLists ==
    \A h \in DOMAIN _schedules_by_headcode : _schedules_by_headcode[h] # <<>>

\* deleting Y, which every payload of Y lists under 1A01, emptied that list
C8_Witness ==
    /\ Ingested
    /\ KindOf(LastPayload) = "Delete"
    /\ UidOf(LastPayload) = "Y"
    /\ last.log = <<"Deleted VSTP schedule">>
    /\ "1A01" \notin DOMAIN _schedules_by_headcode

(***************************************************************************)
(* C9: an ingested event that is dropped (a transaction kind other than    *)
(* Create, Update and Delete, no or an empty unique id, no envelope, a     *)
(* delete of an id that is not stored, a create/update whose window        *)
(* excludes today) leaves the primary index, the secondary index and the   *)
(* schedule count as they were and adds one to the message count.          *)
(***************************************************************************)
Dropped(message, by_uid, day) ==
    \/ message.envelope = Missing
    \/ /\ message.envelope = "present"
       /\ LET schedule == message.JsonScheduleV1
          IN  \/ KindOf(schedule) \notin {"Create", "Update", "Delete"}
              \/ ~Truthy(schedule.CIF_train_uid)
              \/ /\ KindOf(schedule) = "Delete"
                 /\ UidOf(schedule) \notin DOMAIN by_uid
              \/ /\ KindOf(schedule) \in {"Create", "Update"}
                 /\ BothWellFormed(schedule)
                 /\ ~Straddles(schedule, day)

C9_DroppedEventIsANoOp ==
    [][(Ingested' /\ Dropped(last'.message, _schedules_by_uid, today))
       => /\ IndicesUnchanged
          /\ _schedule_count' = _schedule_count
          /\ _message_count' = _message_count + 1
      ]_vars

\* an event of unknown kind was dropped over a store that holds a schedule
C9_Witness ==
    /\ Ingested
    /\ last.message.envelope = "present"
    /\ KindOf(LastPayload) = "Replace"
    /\ UidOf(LastPayload) \in DOMAIN _schedules_by_uid
    /\ _message_count >= 2

(***************************************************************************)
(* C10: a create/update payload whose start or end date is present but not *)
(* parseable as YYYY-MM-DD, or which lacks either date, is treated as      *)
(* valid on any day: it is stored in the primary index and under each of   *)
(* its headcodes in the secondary index.                                   *)
(***************************************************************************)
FailsOpen(schedule) ==
    \/ ~Truthy(schedule.schedule_start_date)
    \/ ~Truthy(schedule.schedule_end_date)
    \/ StrptimeRaises(schedule.schedule_start_date)
    \/ StrptimeRaises(schedule.schedule_end_date)

C10_MalformedDatesFailOpen ==
    (IngestedCreateOrUpdate /\ FailsOpen(LastPayload))
    => /\ get_schedule_for_uid(UidOf(LastPayload)) = LastPayload
       /\ \A h \in _extract_headcodes(LastPayload) :
             LastPayload \in Listed(_schedules_by_headcode, h)

(***************************************************************************)
(* C11: process_vstp_message returns normally for every shape of event:    *)
(* no call of it ends in an exception.                                     *)
(***************************************************************************)
C11_IngestNeverRaises ==
    Ingested => last.raised = "None"

(***************************************************************************)
(* Text.  A str is a TLA+ string; the operators below are the str methods  *)
(* and the regular-expression matches that service_classifier.py uses.     *)
(***************************************************************************)
\* text[i], 1-based
CharAt(text, i) == SubSeq(text, i, i)

Digits == "0123456789"
LowerCase == "abcdefghijklmnopqrstuvwxyz"
UpperCase == "ABCDEFGHIJKLMNOPQRSTUVWXYZ"

\* char in alphabet
IsOneOf(char, alphabet) ==
    Len(char) = 1 /\ \E i \in 1..Len(alphabet) : CharAt(alphabet, i) = char

\* \d and \w of the re module, on the ASCII characters
IsDigit(char) == IsOneOf(char, Digits)
IsWord(char) ==
    IsOneOf(char, Digits) \/ IsOneOf(char, LowerCase) \/ IsOneOf(char, UpperCase)
        \/ char = "_"

\* the position of char in alphabet
IndexIn(char, alphabet) == CHOOSE i \in 1..Len(alphabet) : CharAt(alphabet, i) = char

LowerChar(char) ==
    IF IsOneOf(char, UpperCase) THEN CharAt(LowerCase, IndexIn(char, UpperCase))
    ELSE char

UpperChar(char) ==
    IF IsOneOf(char, LowerCase) THEN CharAt(UpperCase, IndexIn(char, LowerCase))
    ELSE char

\* str.lower()
RECURSIVE Lower(_)
Lower(text) ==
    IF text = "" THEN ""
    ELSE LowerChar(CharAt(text, 1)) \o Lower(SubSeq(text, 2, Len(text)))

\* keyword in text
Contains(text, keyword) ==
    \E i \in 1..(Len(text) - Len(keyword) + 1) :
        SubSeq(text, i, i + Len(keyword) - 1) = keyword

\* str.replace("_", " ")
RECURSIVE ReplaceUnderscores(_)
ReplaceUnderscores(text) ==
    IF text = "" THEN ""
    ELSE (IF CharAt(text, 1) = "_" THEN " " ELSE CharAt(text, 1))
             \o ReplaceUnderscores(SubSeq(text, 2, Len(text)))

\* str.title(): a letter after a non-letter is upper case, a letter after a
\* letter is lower case
RECURSIVE TitleFrom(_, _)
TitleFrom(text, after_letter) ==
    IF text = "" THEN ""
    ELSE LET char == CharAt(text, 1)
             letter == IsOneOf(char, LowerCase) \/ IsOneOf(char, UpperCase)
         IN  (IF after_letter THEN LowerChar(char) ELSE UpperChar(char))
                 \o TitleFrom(SubSeq(text, 2, Len(text)), letter)

Title(text) == TitleFrom(text, FALSE)

\* the "$" of a pattern: the end of the text, or just before a final newline
EndsAfter(text, length) ==
    \/ Len(text) = length
    \/ Len(text) = length + 1 /\ CharAt(text, length + 1) = "\n"

\* ^3[HY]\d{2}$
RHTT_HEADCODE_PATTERN(headcode) ==
    /\ EndsAfter(headcode, 4)
    /\ CharAt(headcode, 1) = "3"
    /\ CharAt(headcode, 2) \in {"H", "Y"}
    /\ IsDigit(CharAt(headcode, 3)) /\ IsDigit(CharAt(headcode, 4))

\* ^1Z\d{2}$
STEAM_HEADCODE_PATTERN(headcode) ==
    /\ EndsAfter(headcode, 4)
    /\ SubSeq(headcode, 1, 2) = "1Z"
    /\ IsDigit(CharAt(headcode, 3)) /\ IsDigit(CharAt(headcode, 4))

\* ^1X99$
ROYAL_TRAIN_HEADCODE_PATTERN(headcode) ==
    EndsAfter(headcode, 4) /\ SubSeq(headcode, 1, 4) = "1X99"

\* ^[0467]\w{3}$
FREIGHT_HEADCODE_PATTERN(headcode) ==
    /\ EndsAfter(headcode, 4)
    /\ CharAt(headcode, 1) \in {"0", "4", "6", "7"}
    /\ \A i \in 2..4 : IsWord(CharAt(headcode, i))

\* ^5\w{3}$
ECS_HEADCODE_PATTERN(headcode) ==
    /\ EndsAfter(headcode, 4)
    /\ CharAt(headcode, 1) = "5"
    /\ \A i \in 2..4 : IsWord(CharAt(headcode, i))

\* ^1Z\d{2}$
CHARTER_HEADCODE_PATTERN(headcode) ==
    /\ EndsAfter(headcode, 4)
    /\ SubSeq(headcode, 1, 2) = "1Z"
    /\ IsDigit(CharAt(headcode, 3)) /\ IsDigit(CharAt(headcode, 4))

PULLMAN_KEYWORDS == <<"pullman", "orient express", "luxury", "belmond">>

\* any(keyword in text for keyword in PULLMAN_KEYWORDS)
AnyPullmanKeyword(text) ==
    \E i \in 1..Len(PULLMAN_KEYWORDS) : Contains(text, PULLMAN_KEYWORDS[i])

\* CIF_train_category code -> service type
CATEGORY_TYPES ==
    [code \in {"OO", "OW", "XC", "XX", "XZ", "BR", "BS", "EE", "EL", "ES",
               "JJ", "PM", "PP", "PV", "XY"} |->
        CASE code \in {"OO", "OW"} -> "ordinary_passenger"
          [] code \in {"XC", "XX"} -> "express_passenger"
          [] code = "XZ" -> "sleeper"
          [] code = "BR" -> "bus_replacement"
          [] code = "BS" -> "bus_wtt"
          [] code \in {"EE", "EL", "ES"} -> "empty_coaching_stock"
          [] code \in {"JJ", "PM"} -> "postal"
          [] code \in {"PP", "PV"} -> "parcels"
          [] code = "XY" -> "freight_special"]

\* single-letter freight category -> service category
FREIGHT_CATEGORIES ==
    [code \in {"B", "E", "F", "G", "H", "J", "M", "Q", "R", "S"} |->
        CASE code = "B" -> "freight_automotive"
          [] code = "E" -> "freight_empty"
          [] code = "F" -> "freight_freightliner"
          [] code = "G" -> "freight_general"
          [] code = "H" -> "freight_aggregates"
          [] code = "J" -> "freight_freight_trip"
          [] code = "M" -> "freight_intermodal"
          [] code = "Q" -> "freight_other"
          [] code = "R" -> "freight_infrastructure"
          [] code = "S" -> "freight_steel"]

(***************************************************************************)
(* service_classifier.py                                                   *)
(***************************************************************************)
\* vstp_data: a schedule dict with the five fields that classification
\* reads, the empty dict, or None
Attributes(category, power_type, train_class, operating_chars, locations) ==
    [kind |-> "dict",
     CIF_train_category |-> category,
     CIF_power_type |-> power_type,
     train_class |-> train_class,
     operating_characteristics |-> operating_chars,
     schedule_location |-> locations]

EmptyAttributes ==
    [kind |-> "empty",
     CIF_train_category |-> Missing,
     CIF_power_type |-> Missing,
     train_class |-> Missing,
     operating_characteristics |-> Missing,
     schedule_location |-> MissingLocations]

NoAttributes == [EmptyAttributes EXCEPT !.kind = NoneVal]

\* bool(vstp_data): None and {} are falsy
HasAttributes(vstp_data) == vstp_data.kind = "dict"

\* the dict that classify_service builds (lines 98-107)
Classification(type, category, description, freight, passenger, special, tags, alert) ==
    [service_type |-> type,
     service_category |-> category,
     description |-> description,
     is_freight |-> freight,
     is_passenger |-> passenger,
     is_special |-> special,
     special_types |-> tags,
     alert_worthy |-> alert]

\* what a function of the classifier does: it returns value, or it raises
Returns(value) == [raised |-> "None", value |-> value]
Raises(exception) == [raised |-> exception, value |-> <<>>]

\* tag in special_types
InList(tag, list) == \E i \in 1..Len(list) : list[i] = tag

\* the loop over schedule_location in _detect_special_services (lines
\* 242-246): "pullman" when an identity has a keyword, "None" when the loop
\* ends without one, or the exception of the first entry that cannot be read
RECURSIVE ScanIdentities(_)
ScanIdentities(items) ==
    IF items = <<>> THEN "None"
    ELSE IF ~items[1].is_dict THEN "AttributeError"
    ELSE IF DictGet(items[1].train_identity, "") = NoneVal THEN "AttributeError"
    ELSE IF AnyPullmanKeyword(Lower(DictGet(items[1].train_identity, "")))
    THEN "pullman"
    ELSE ScanIdentities(Tail(items))

\* _detect_special_services (lines 196-256)
_detect_special_services(vstp_data, headcode) ==
    IF ROYAL_TRAIN_HEADCODE_PATTERN(headcode) THEN Returns(<<"royal_train">>)
    ELSE
    LET has == HasAttributes(vstp_data)
        by_headcode == IF RHTT_HEADCODE_PATTERN(headcode) THEN <<"rhtt">> ELSE <<>>
        operating_chars == DictGet(vstp_data.operating_characteristics, "")
        with_rhtt ==
            IF has /\ Contains(operating_chars, "R") /\ ~InList("rhtt", by_headcode)
            THEN Append(by_headcode, "rhtt") ELSE by_headcode
        power_type == DictGet(vstp_data.CIF_power_type, "")
        with_steam ==
            IF STEAM_HEADCODE_PATTERN(headcode)
            THEN Append(with_rhtt, "charter")
                     \o (IF has /\ power_type \in {"HST", "STEAM"}
                         THEN <<"steam">> ELSE <<>>)
            ELSE with_rhtt
        train_class == DictGet(vstp_data.train_class, "")
        schedule_locations ==
            IF vstp_data.schedule_location.kind = Missing THEN LocationList(<<>>)
            ELSE vstp_data.schedule_location
        scan == IF schedule_locations.kind = NoneVal THEN "TypeError"
                ELSE ScanIdentities(schedule_locations.items)
        with_identity ==
            IF has /\ scan = "pullman" THEN Append(with_steam, "pullman")
            ELSE with_steam
        with_class ==
            IF has /\ AnyPullmanKeyword(Lower(train_class))
            THEN Append(with_identity, "pullman") ELSE with_identity
        special_types ==
            IF CHARTER_HEADCODE_PATTERN(headcode) /\ ~InList("charter", with_class)
            THEN Append(with_class, "charter") ELSE with_class
    IN  IF has /\ operating_chars = NoneVal THEN Raises("TypeError")
        ELSE IF has /\ train_class = NoneVal THEN Raises("AttributeError")
        ELSE IF has /\ scan \in {"TypeError", "AttributeError"}
        THEN Raises(scan)
        ELSE Returns(special_types)

\* the dict that _classify_by_headcode builds (lines 268-276): it has no
\* special_types key
HeadcodeClassification(type, category, description, freight, passenger, special, alert) ==
    [service_type |-> type,
     service_category |-> category,
     description |-> description,
     is_freight |-> freight,
     is_passenger |-> passenger,
     is_special |-> special,
     alert_worthy |-> alert]

\* _classify_by_headcode (lines 259-314)
_classify_by_headcode(headcode) ==
    IF FREIGHT_HEADCODE_PATTERN(headcode)
    THEN HeadcodeClassification("freight", "freight_unclassified",
                                "Freight Service", TRUE, FALSE, FALSE, TRUE)
    ELSE IF ECS_HEADCODE_PATTERN(headcode)
    THEN HeadcodeClassification("empty_coaching_stock", "ecs",
                                "Empty Coaching Stock", FALSE, FALSE, FALSE, FALSE)
    ELSE IF CHARTER_HEADCODE_PATTERN(headcode)
    THEN HeadcodeClassification("passenger", "charter", "Charter Service",
                                FALSE, TRUE, TRUE, TRUE)
    ELSE IF headcode # "" /\ Len(headcode) = 4 /\ IsOneOf(CharAt(headcode, 1), "123")
    THEN HeadcodeClassification("passenger", "passenger_unclassified",
                                "Passenger Service", FALSE, TRUE, FALSE, FALSE)
    ELSE HeadcodeClassification("unknown", "unknown", "Train " \o headcode,
                                FALSE, FALSE, FALSE, FALSE)

\* dict.update(other)
Update(dict, other) ==
    [key \in DOMAIN dict |-> IF key \in DOMAIN other THEN other[key] ELSE dict[key]]

\* stage 1 of classify_service (lines 110-139): the primary type of the
\* highest-priority tag that _detect_special_services found
ClassifyBySpecialTypes(special_types) ==
    IF special_types = <<>>
    THEN Classification("unknown", "unknown", "Unknown service",
                        FALSE, FALSE, FALSE, <<>>, FALSE)
    ELSE IF InList("royal_train", special_types)
    THEN Classification("royal_train", "royal_train", "Royal Train",
                        FALSE, FALSE, TRUE, special_types, TRUE)
    ELSE IF InList("steam", special_types)
    THEN Classification("charter", "steam_charter", "Steam Charter Service",
                        FALSE, TRUE, TRUE, special_types, TRUE)
    ELSE IF InList("rhtt", special_types)
    THEN Classification("infrastructure", "rhtt", "Rail Head Treatment Train",
                        FALSE, FALSE, TRUE, special_types, TRUE)
    ELSE IF InList("pullman", special_types)
    THEN Classification("passenger", "luxury_charter", "Pullman/Luxury Charter",
                        FALSE, TRUE, TRUE, special_types, TRUE)
    ELSE IF InList("charter", special_types)
    THEN Classification("passenger", "charter", "Charter Service",
                        FALSE, TRUE, TRUE, special_types, TRUE)
    ELSE Classification("unknown", "unknown", "Unknown service",
                        FALSE, FALSE, TRUE, special_types, TRUE)

\* stage 2, the operating characteristics (lines 148-156); the caller has
\* checked that the field is no None
ClassifyByOperatingChars(result, vstp_data) ==
    LET operating_chars == DictGet(vstp_data.operating_characteristics, "")
    IN  IF Contains(operating_chars, "R") /\ ~InList("rhtt", result.special_types)
        THEN LET tagged ==
                     [result EXCEPT !.special_types = Append(@, "rhtt"),
                                    !.is_special = TRUE,
                                    !.alert_worthy = TRUE]
             IN  IF result.service_type = "unknown"
                 THEN [tagged EXCEPT !.service_type = "infrastructure",
                                     !.service_category = "rhtt",
                                     !.description = "Rail Head Treatment Train"]
                 ELSE tagged
        ELSE result

\* the category table applied whatever the type is
ClassifyByCategory_IgnoresType(result, vstp_data) ==
    LET category == DictGet(vstp_data.CIF_train_category, "")
    IN  IF category \in DOMAIN CATEGORY_TYPES
        THEN [result EXCEPT !.service_type = CATEGORY_TYPES[category],
                            !.service_category = category]
        ELSE result

\* stage 2, the category table (lines 159-178)
ClassifyByCategory(result, vstp_data) ==
    LET category == DictGet(vstp_data.CIF_train_category, "")
    IN  IF category \in DOMAIN CATEGORY_TYPES /\ result.service_type = "unknown"
        THEN LET service_type == CATEGORY_TYPES[category]
                 typed == [result EXCEPT !.service_type = service_type,
                                         !.service_category = category]
             IN  IF Contains(service_type, "passenger")
                 THEN [typed EXCEPT !.is_passenger = TRUE,
                                    !.description =
                                        Title(ReplaceUnderscores(service_type))]
                 ELSE IF Contains(service_type, "empty_coaching_stock")
                 THEN [typed EXCEPT !.description = "Empty Coaching Stock"]
                 ELSE IF Contains(service_type, "bus")
                 THEN [typed EXCEPT !.is_passenger = TRUE,
                                    !.description = "Bus Replacement Service"]
                 ELSE IF service_type \in {"postal", "parcels"}
                 THEN [typed EXCEPT !.description = Title(service_type)]
                 ELSE IF service_type = "freight_special"
                 THEN [typed EXCEPT !.is_freight = TRUE,
                                    !.is_special = TRUE,
                                    !.alert_worthy = TRUE,
                                    !.description = "Special Freight Service"]
                 ELSE typed
        ELSE result

\* the freight table applied whatever the type is
ClassifyByFreightCategory_IgnoresType(result, vstp_data) ==
    LET category == DictGet(vstp_data.CIF_train_category, "")
    IN  IF category \in DOMAIN FREIGHT_CATEGORIES
        THEN [result EXCEPT
                 !.is_freight = TRUE,
                 !.service_type = "freight",
                 !.service_category = FREIGHT_CATEGORIES[category],
                 !.description = Title(ReplaceUnderscores(FREIGHT_CATEGORIES[category])),
                 !.alert_worthy = TRUE]
        ELSE result

\* stage 2, the freight table (lines 181-186)
ClassifyByFreightCategory(result, vstp_data) ==
    LET category == DictGet(vstp_data.CIF_train_category, "")
    IN  IF category \in DOMAIN FREIGHT_CATEGORIES /\ result.service_type = "unknown"
        THEN [result EXCEPT
                 !.is_freight = TRUE,
                 !.service_type = "freight",
                 !.service_category = FREIGHT_CATEGORIES[category],
                 !.description = Title(ReplaceUnderscores(FREIGHT_CATEGORIES[category])),
                 !.alert_worthy = TRUE]
        ELSE result

\* stage 3, the headcode (lines 189-191)
ClassifyByHeadcode(result, headcode) ==
    IF result.service_type = "unknown"
    THEN Update(result, _classify_by_headcode(headcode))
    ELSE result

\* stage 2 as a whole (lines 142-186), for a vstp_data that is read without
\* an exception
ClassifyByAttributes(result, vstp_data) ==
    IF HasAttributes(vstp_data)
    THEN ClassifyByFreightCategory(
             ClassifyByCategory(
                 ClassifyByOperatingChars(result, vstp_data), vstp_data),
             vstp_data)
    ELSE result

\* classify_service (lines 78-193)
classify_service(vstp_data, headcode) ==
    LET detected == _detect_special_services(vstp_data, headcode)
    IN  IF detected.raised # "None" THEN Raises(detected.raised)
        ELSE IF HasAttributes(vstp_data)
                    /\ DictGet(vstp_data.operating_characteristics, "") = NoneVal
        THEN Raises("TypeError")
        ELSE Returns(ClassifyByHeadcode(
                         ClassifyByAttributes(
                             ClassifyBySpecialTypes(detected.value), vstp_data),
                         headcode))

\* should_alert_for_service (lines 317-355).  alert_config is None, or a
\* dict of flags which may lack any key; the result is the pair
\* (should_alert, alert_reason) with NoneVal for None
NoConfig == [kind |-> NoneVal, flags |-> [k \in {} |-> FALSE]]
Config(flags) == [kind |-> "dict", flags |-> flags]

\* the last tag whose flag is set
RECURSIVE LastEnabledTag(_, _)
LastEnabledTag(special_types, flags) ==
    IF special_types = <<>> THEN NoneVal
    ELSE IF Lookup(flags, special_types[Len(special_types)], FALSE)
    THEN special_types[Len(special_types)]
    ELSE LastEnabledTag(SubSeq(special_types, 1, Len(special_types) - 1), flags)

\* the loop over special_types (lines 343-345): the first tag whose flag is
\* set, or NoneVal
RECURSIVE FirstEnabledTag(_, _)
FirstEnabledTag(special_types, flags) ==
    IF special_types = <<>> THEN NoneVal
    ELSE IF Lookup(flags, special_types[1], FALSE) THEN special_types[1]
    ELSE FirstEnabledTag(Tail(special_types), flags)

should_alert_for_service(classification, alert_config) ==
    IF alert_config.kind = NoneVal \/ DOMAIN alert_config.flags = {}
    THEN <<FALSE, NoneVal>>
    ELSE LET flags == alert_config.flags
             tag == FirstEnabledTag(classification.special_types, flags)
         IN  IF tag # NoneVal THEN <<TRUE, "Special service: " \o tag>>
             ELSE IF classification.is_freight /\ Lookup(flags, "freight", FALSE)
             THEN <<TRUE, "Freight service">>
             ELSE IF classification.is_special /\ Lookup(flags, "charter", FALSE)
             THEN <<TRUE, "Special/Charter service">>
             ELSE <<FALSE, NoneVal>>

(***************************************************************************)
(* Calls of classify_service.  The function reads no state: a behaviour    *)
(* is one call, from the arguments to the dict it returns or the exception *)
(* it raises.  The manager stays as __init__ left it.                      *)
(***************************************************************************)
FreshManager ==
    /\ _schedules_by_uid = EmptyDict
    /\ _schedules_by_headcode = [k \in {} |-> <<>>]
    /\ _message_count = 0
    /\ _schedule_count = 0
    /\ today = 1

\* a call that has not returned yet
Pending == [raised |-> "<pending>", value |-> <<>>]

\* headcodes of every pattern, and texts that are no headcode: a final
\* newline, a character that is no word character, three and five characters
HeadcodeInputs ==
    {"1X99", "1X99\n", "3H07", "3HA7", "1Z12", "1Z1A", "6M94", "6M94\n", "6-94",
     "5A11", "5A1", "1F42", "1-42", "2F423", "9Z99", ""}

CategoryInputs ==
    {Missing, NoneVal, "ZZ"} \cup DOMAIN CATEGORY_TYPES \cup DOMAIN FREIGHT_CATEGORIES

PowerTypeInputs == {Missing, NoneVal, "HST", "STEAM", "EMU"}

TrainClassInputs == {Missing, NoneVal, "390", "Belmond Pullman"}

OperatingCharsInputs == {Missing, NoneVal, "Q", "DR"}

LocationsInputs ==
    {MissingLocations, NullLocations,
     LocationList(<<Location(Missing), Location("1A01")>>),
     LocationList(<<Location("ORIENT EXPRESS"), NotADict>>),
     LocationList(<<Location(NoneVal)>>)}

AttributesInputs ==
    {Attributes(category, power_type, train_class, operating_chars, locations) :
        category \in CategoryInputs, power_type \in PowerTypeInputs,
        train_class \in TrainClassInputs,
        operating_chars \in OperatingCharsInputs,
        locations \in LocationsInputs}
        \cup {EmptyAttributes, NoAttributes}

ClassifyCall(vstp_data, headcode, outcome) ==
    [op |-> "classify_service", vstp_data |-> vstp_data, headcode |-> headcode,
     outcome |-> outcome]

InitClassifier ==
    /\ FreshManager
    /\ last \in {ClassifyCall(vstp_data, headcode, Pending) :
                    vstp_data \in AttributesInputs, headcode \in HeadcodeInputs}

Classify ==
    /\ last.op = "classify_service"
    /\ last.outcome.raised = "<pending>"
    /\ last' = [last EXCEPT !.outcome = classify_service(last.vstp_data, last.headcode)]
    /\ UNCHANGED <<_schedules_by_uid, _schedules_by_headcode, _message_count,
                   _schedule_count, today>>

NextClassifier == Classify

SpecClassifier == InitClassifier /\ [][NextClassifier]_vars

\* the call has ended
ClassifyEnded == last.op = "classify_service" /\ last.outcome.raised # "<pending>"
\* the call has returned a dict
Classified == last.op = "classify_service" /\ last.outcome.raised = "None"
\* the dict it returned
Verdict == last.outcome.value
\* the tags that stage 1 found for the arguments of the call
Detected == _detect_special_services(last.vstp_data, last.headcode)

(* C12: for every headcode that matches the royal-train pattern the tag    *)
(* list that classify_service returns is exactly [royal_train], whatever   *)
(* the structured attributes are.                                          *)
C12_RoyalTrainIsExclusive ==
    (ClassifyEnded /\ ROYAL_TRAIN_HEADCODE_PATTERN(last.headcode))
    => (Classified /\ Verdict.special_types = <<"royal_train">>)

\* the priority of the tags and the primary type, category and description
\* that each tag stands for
TagPriority == <<"royal_train", "steam", "rhtt", "pullman", "charter">>

PrimaryOfTag ==
    [tag \in {"royal_train", "steam", "rhtt", "pullman", "charter"} |->
        CASE tag = "royal_train" -> <<"royal_train", "royal_train", "Royal Train">>
          [] tag = "steam" -> <<"charter", "steam_charter", "Steam Charter Service">>
          [] tag = "rhtt" -> <<"infrastructure", "rhtt", "Rail Head Treatment Train">>
          [] tag = "pullman" -> <<"passenger", "luxury_charter", "Pullman/Luxury Charter">>
          [] tag = "charter" -> <<"passenger", "charter", "Charter Service">>]

\* the tag of tags that comes first in TagPriority
HighestTag(tags) ==
    TagPriority[CHOOSE i \in 1..Len(TagPriority) :
                    /\ InList(TagPriority[i], tags)
                    /\ \A j \in 1..(i - 1) : ~InList(TagPriority[j], tags)]

\* primary type, category and description of a classification
Primary(classification) ==
    <<classification.service_type, classification.service_category,
      classification.description>>

\* stage 1 has returned at least one tag for the arguments of the call
DetectedTags == Detected.raised = "None" /\ Detected.value # <<>>

(* C13: whenever stage 1 detects at least one tag, classify_service        *)
(* returns a record that is special and alert-worthy, whose type, category *)
(* and description are those of the highest-priority tag detected (royal   *)
(* train, steam, rhtt, pullman, charter), and whose tag list holds every   *)
(* detected tag.                                                           *)
C13_PrimaryFromHighestTag ==
    (ClassifyEnded /\ DetectedTags)
    => /\ Classified
       /\ Verdict.is_special /\ Verdict.alert_worthy
       /\ Primary(Verdict) = PrimaryOfTag[HighestTag(Detected.value)]
       /\ \A i \in 1..Len(Detected.value) :
              InList(Detected.value[i], Verdict.special_types)

\* C13 on the calls that return: it fails on no other
C13_HoldsWhenClassified ==
    (Classified /\ DetectedTags)
    => /\ Verdict.is_special /\ Verdict.alert_worthy
       /\ Primary(Verdict) = PrimaryOfTag[HighestTag(Detected.value)]
       /\ \A i \in 1..Len(Detected.value) :
              InList(Detected.value[i], Verdict.special_types)

(* C14: the tag list of every classification is a set: no tag is in it     *)
(* twice, and every tag is one of royal_train, rhtt, steam, pullman and    *)
(* charter.                                                                *)
C14_TagsAreASet ==
    Classified
    => /\ \A i, j \in 1..Len(Verdict.special_types) :
              i # j => Verdict.special_types[i] # Verdict.special_types[j]
       /\ \A i \in 1..Len(Verdict.special_types) :
              Verdict.special_types[i] \in DOMAIN PrimaryOfTag

(* C15: classify_service is total: every call returns a classification,   *)
(* for every headcode and for attributes with fields missing or null.      *)
C15_ClassifyIsTotal ==
    ClassifyEnded => Classified

\* the code is four characters
FourCharacters(headcode) == Len(headcode) = 4

\* the call found no tag and took its type from no category table
HeadcodeOnly ==
    /\ Classified
    /\ Verdict.special_types = <<>>
    /\ ~(HasAttributes(last.vstp_data)
           /\ DictGet(last.vstp_data.CIF_train_category, "") \in
                  DOMAIN CATEGORY_TYPES \cup DOMAIN FREIGHT_CATEGORIES)

Flags(classification) ==
    <<classification.is_freight, classification.is_passenger,
      classification.is_special, classification.alert_worthy>>

(* C17: when no tag fires and no category matches, a four-character code   *)
(* that starts with 0, 4, 6 or 7 is unclassified freight (is_freight and   *)
(* alert-worthy), one that starts with 5 is empty coaching stock (not      *)
(* alert-worthy), any other that starts with 1, 2 or 3 is unclassified     *)
(* passenger (is_passenger, not alert-worthy), and everything else is      *)
(* unknown with description "Train {headcode}" and all booleans false.     *)
C17_HeadcodeFallback ==
    HeadcodeOnly
    => LET headcode == last.headcode
           first == CharAt(headcode, 1)
       IN  IF FourCharacters(headcode) /\ first \in {"0", "4", "6", "7"}
           THEN /\ Primary(Verdict) =
                       <<"freight", "freight_unclassified", "Freight Service">>
                /\ Flags(Verdict) = <<TRUE, FALSE, FALSE, TRUE>>
           ELSE IF FourCharacters(headcode) /\ first = "5"
           THEN /\ Primary(Verdict) =
                       <<"empty_coaching_stock", "ecs", "Empty Coaching Stock">>
                /\ Flags(Verdict) = <<FALSE, FALSE, FALSE, FALSE>>
           ELSE IF FourCharacters(headcode) /\ first \in {"1", "2", "3"}
           THEN /\ Primary(Verdict) =
                       <<"passenger", "passenger_unclassified", "Passenger Service">>
                /\ Flags(Verdict) = <<FALSE, TRUE, FALSE, FALSE>>
           ELSE /\ Primary(Verdict) = <<"unknown", "unknown", "Train " \o headcode>>
                /\ Flags(Verdict) = <<FALSE, FALSE, FALSE, FALSE>>

\* C17 on the codes made of word characters: it fails on no other
C17_HoldsOnWordCharacters ==
    (last.op = "classify_service"
        /\ \A i \in 1..Len(last.headcode) : IsWord(CharAt(last.headcode, i)))
    => C17_HeadcodeFallback

\* the record of the call after each stage of classify_service: the special
\* types, the operating characteristics, the category table, the freight
\* table, the headcode
StagesOfCall ==
    LET vstp_data == last.vstp_data
        has == HasAttributes(vstp_data)
        special == ClassifyBySpecialTypes(Detected.value)
        operating == IF has THEN ClassifyByOperatingChars(special, vstp_data)
                     ELSE special
        category == IF has THEN ClassifyByCategory(operating, vstp_data)
                    ELSE operating
        freight == IF has THEN ClassifyByFreightCategory(category, vstp_data)
                   ELSE category
    IN  <<special, operating, category, freight,
          ClassifyByHeadcode(freight, last.headcode)>>

(* C18: once a stage of classify_service has set the primary type, no      *)
(* later stage changes the type, the category or the description: the      *)
(* category tables and the headcode only act while the type is unknown.    *)
(* An RHTT headcode with category XX stays infrastructure/rhtt; category   *)
(* XX with no tag gives the express passenger type with is_passenger.      *)
C18_StagePrecedence ==
    Classified
    => LET stages == StagesOfCall
           category == DictGet(last.vstp_data.CIF_train_category, "")
       IN  /\ Verdict = stages[Len(stages)]
           /\ \A i \in 1..(Len(stages) - 1) :
                  stages[i].service_type # "unknown"
                      => Primary(stages[i + 1]) = Primary(stages[i])
           /\ (RHTT_HEADCODE_PATTERN(last.headcode) /\ category = "XX")
                  => Primary(Verdict) =
                         <<"infrastructure", "rhtt", "Rail Head Treatment Train">>
           /\ (HasAttributes(last.vstp_data) /\ category = "XX"
                   /\ Verdict.special_types = <<>>)
                  => /\ Verdict.service_type = "express_passenger"
                     /\ Verdict.is_passenger

\* an RHTT headcode met category XX, and the category table left the type
C18_Witness ==
    /\ Classified
    /\ RHTT_HEADCODE_PATTERN(last.headcode)
    /\ HasAttributes(last.vstp_data)
    /\ last.vstp_data.CIF_train_category = "XX"
    /\ Verdict.service_type = "infrastructure"

(***************************************************************************)
(* Calls of should_alert_for_service, one call per behaviour.              *)
(***************************************************************************)
\* a classification has at most MaxTags special types
MaxTags == 2

AlertTags == {"rhtt", "steam", "charter"}

AlertKeys == {"freight", "rhtt", "steam", "charter"}

TagLists == UNION {[1..n -> AlertTags] : n \in 0..MaxTags}

\* the classifications that differ in what should_alert_for_service reads
ClassificationInputs ==
    {Classification("unknown", "unknown", "Unknown service", freight, FALSE,
                    special, tags, FALSE) :
        freight \in BOOLEAN, special \in BOOLEAN, tags \in TagLists}

\* None, {} and every dict of flags over some of the keys
ConfigInputs ==
    {NoConfig} \cup {Config(flags) : flags \in UNION {[keys -> BOOLEAN] :
                                                         keys \in SUBSET AlertKeys}}

AlertCall(classification, alert_config, outcome) ==
    [op |-> "should_alert_for_service", classification |-> classification,
     alert_config |-> alert_config, outcome |-> outcome]

InitAlert ==
    /\ FreshManager
    /\ last \in {AlertCall(classification, alert_config, Pending) :
                    classification \in ClassificationInputs,
                    alert_config \in ConfigInputs}

ShouldAlert ==
    /\ last.op = "should_alert_for_service"
    /\ last.outcome.raised = "<pending>"
    /\ last' = [last EXCEPT !.outcome =
                   Returns(should_alert_for_service(last.classification,
                                                    last.alert_config))]
    /\ UNCHANGED <<_schedules_by_uid, _schedules_by_headcode, _message_count,
                   _schedule_count, today>>

NextAlert == ShouldAlert

SpecAlert == InitAlert /\ [][NextAlert]_vars

\* the call has returned
Alerted == last.op = "should_alert_for_service" /\ last.outcome.raised = "None"

\* the flag of the config for a key: false when the key is missing
Flag(key) == Lookup(last.alert_config.flags, key, FALSE)

(* C16: should_alert_for_service is first-true-wins: a missing or empty    *)
(* config gives (false, none); otherwise the first tag of the tag list     *)
(* whose flag is true gives "Special service: {tag}"; if no tag fires,     *)
(* is_freight with the freight flag gives "Freight service"; if that does  *)
(* not fire, is_special with the charter flag gives "Special/Charter       *)
(* service"; otherwise (false, none).                                      *)
C16_FirstTrueWins ==
    Alerted
    => LET tags == last.classification.special_types
           config == last.alert_config
           fires == {i \in 1..Len(tags) : Flag(tags[i])}
           answer == last.outcome.value
       IN  IF config.kind = NoneVal \/ DOMAIN config.flags = {}
           THEN answer = <<FALSE, NoneVal>>
           ELSE IF fires # {}
           THEN \E i \in fires :
                    /\ \A j \in fires : i <= j
                    /\ answer = <<TRUE, "Special service: " \o tags[i]>>
           ELSE IF last.classification.is_freight /\ Flag("freight")
           THEN answer = <<TRUE, "Freight service">>
           ELSE IF last.classification.is_special /\ Flag("charter")
           THEN answer = <<TRUE, "Special/Charter service">>
           ELSE answer = <<FALSE, NoneVal>>

\* tags [rhtt, charter] with rhtt off and charter on: the charter tag fires
C16_Witness ==
    /\ Alerted
    /\ last.classification.special_types = <<"rhtt", "charter">>
    /\ last.alert_config.kind = "dict"
    /\ "rhtt" \in DOMAIN last.alert_config.flags /\ ~Flag("rhtt")
    /\ Flag("charter")
    /\ last.outcome.value = <<TRUE, "Special service: charter">>

(***************************************************************************)
(* get_next_scheduled_stop (vstp_manager.py, lines 268-302), one call per  *)
(* behaviour.  The method reads its arguments only.                        *)
(***************************************************************************)
\* a schedule has at most MaxStops locations
MaxStops == 3

\* a schedule_location entry with the fields that the method reads
Stop(tiploc_code, arrival, departure) ==
    [tiploc_code |-> tiploc_code, arrival |-> arrival, departure |-> departure]

\* location.get("arrival") or location.get("departure")
IsTimed(location) == Truthy(location.arrival) \/ Truthy(location.departure)

\* the first loop (lines 288-290): the position of the first timed
\* location from position i on, 0 for None
RECURSIVE FirstTimedFrom(_, _)
FirstTimedFrom(items, i) ==
    IF i > Len(items) THEN 0
    ELSE IF IsTimed(items[i]) THEN i
    ELSE FirstTimedFrom(items, i + 1)

\* the second loop with the match tested before the time fields
RECURSIVE NextStopFrom_CurrentCounts(_, _, _, _)
NextStopFrom_CurrentCounts(items, i, found_current, current_location) ==
    IF i > Len(items) THEN 0
    ELSE LET found == found_current \/ items[i].tiploc_code = current_location
         IN  IF found /\ IsTimed(items[i]) THEN i
             ELSE NextStopFrom_CurrentCounts(items, i + 1, found, current_location)

\* the second loop (lines 294-300) from position i on, 0 for None
RECURSIVE NextStopFrom(_, _, _, _)
NextStopFrom(items, i, found_current, current_location) ==
    IF i > Len(items) THEN 0
    ELSE IF found_current /\ IsTimed(items[i]) THEN i
    ELSE NextStopFrom(items, i + 1,
                      found_current \/ items[i].tiploc_code = current_location,
                      current_location)

\* the position in schedule_location of the location that the method
\* returns, 0 when it returns None
get_next_scheduled_stop(schedule_locations, current_location) ==
    IF schedule_locations.kind # "list" \/ schedule_locations.items = <<>> THEN 0
    ELSE IF ~Truthy(current_location)
    THEN FirstTimedFrom(schedule_locations.items, 1)
    ELSE NextStopFrom(schedule_locations.items, 1, FALSE, current_location)

StopInputs ==
    {Stop(tiploc_code, timing[1], timing[2]) :
        tiploc_code \in {"A", "B", "C"},
        timing \in {<<Missing, Missing>>, <<NoneVal, "">>, <<"0900", Missing>>,
                    <<NoneVal, "0905">>}}

ScheduleLocationInputs ==
    {MissingLocations, NullLocations}
        \cup {LocationList(items) :
                 items \in UNION {[1..n -> StopInputs] : n \in 0..MaxStops}}

CurrentLocationInputs == {NoneVal, "", "A", "B", "Z"}

NextStopCall(schedule_locations, current_location, outcome) ==
    [op |-> "get_next_scheduled_stop", schedule_location |-> schedule_locations,
     current_location |-> current_location, outcome |-> outcome]

InitNextStop ==
    /\ FreshManager
    /\ last \in {NextStopCall(schedule_locations, current_location, Pending) :
                    schedule_locations \in ScheduleLocationInputs,
                    current_location \in CurrentLocationInputs}

NextStop ==
    /\ last.op = "get_next_scheduled_stop"
    /\ last.outcome.raised = "<pending>"
    /\ last' = [last EXCEPT !.outcome =
                   Returns(get_next_scheduled_stop(last.schedule_location,
                                                   last.current_location))]
    /\ UNCHANGED <<_schedules_by_uid, _schedules_by_headcode, _message_count,
                   _schedule_count, today>>

NextNextStop == NextStop

SpecNextStop == InitNextStop /\ [][NextNextStop]_vars

\* the call has returned
NextStopReturned == last.op = "get_next_scheduled_stop" /\ last.outcome.raised = "None"

(* C19: get_next_scheduled_stop with no current location returns the first *)
(* location, in schedule order, that has an arrival or a departure; with   *)
(* a current location it returns the first location with an arrival or a   *)
(* departure that lies strictly after the first location whose code is the *)
(* current one; it returns None when the code is not in the schedule, when *)
(* no timed location follows, and when the schedule has no locations.      *)
C19_NextStop ==
    NextStopReturned
    => LET items == last.schedule_location.items
           current == last.current_location
           answer == last.outcome.value
           timed == {i \in 1..Len(items) : IsTimed(items[i])}
           matches == {i \in 1..Len(items) : items[i].tiploc_code = current}
       IN  IF ~Truthy(current)
           THEN IF timed = {} THEN answer = 0
                ELSE answer \in timed /\ \A i \in timed : answer <= i
           ELSE IF matches = {} THEN answer = 0
           ELSE LET at == CHOOSE i \in matches : \A j \in matches : i <= j
                    later == {i \in timed : i > at}
                IN  IF later = {} THEN answer = 0
                    ELSE answer \in later /\ \A i \in later : answer <= i

\* [A(departure), B(no time), C(arrival)] with current A: the answer is C
C19_Witness ==
    /\ NextStopReturned
    /\ last.current_location = "A"
    /\ last.schedule_location.kind = "list"
    /\ Len(last.schedule_location.items) = 3
    /\ last.schedule_location.items[1] = Stop("A", NoneVal, "0905")
    /\ last.schedule_location.items[2] = Stop("B", Missing, Missing)
    /\ last.schedule_location.items[3] = Stop("C", "0900", Missing)
    /\ last.outcome.value = 3

(***************************************************************************)
(* clear_cache, under Spec                                                 *)
(***************************************************************************)
\* every lookup returns None or the empty list
LookupsAreEmpty ==
    /\ \A uid \in UIDs : get_schedule_for_uid(uid) = NoPayload
    /\ \A headcode \in QueryHeadcodes :
           /\ get_all_schedules_for_headcode(headcode) = <<>>
           /\ get_schedule_for_headcode(headcode) = NoPayload

\* the step is a call of process_vstp_message
IngestStep == _message_count' = _message_count + 1

\* the step ingests a create/update with a unique id that is valid today
ValidCreateOrUpdateStep ==
    /\ IngestStep
    /\ last'.message.envelope = "present"
    /\ KindOf(last'.message.JsonScheduleV1) \in {"Create", "Update"}
    /\ Truthy(last'.message.JsonScheduleV1.CIF_train_uid)
    /\ _is_schedule_valid_today(last'.message.JsonScheduleV1, today)

\* the step is a call of clear_cache
ClearStep == last'.op = "clear_cache"

(* C20: clear_cache empties the primary and the secondary index and sets   *)
(* the schedule count to 0, and leaves the message count as it is; from    *)
(* then on every lookup returns None or the empty list until a valid       *)
(* create/update is ingested, and an ingest after clear_cache does what it *)
(* does on a fresh store.                                                  *)
C20_ClearIsAFreshStart ==
    [][ /\ ClearStep
            => /\ _schedules_by_uid' = EmptyDict
               /\ DOMAIN _schedules_by_headcode' = {}
               /\ _schedule_count' = 0
               /\ _message_count' = _message_count
        /\ (LookupsAreEmpty /\ ~ValidCreateOrUpdateStep) => LookupsAreEmpty'
        /\ (last.op = "clear_cache" /\ IngestStep)
            => LET fresh == process_vstp_message(last'.message, today, EmptyDict,
                                                 [k \in {} |-> <<>>], 0)
               IN  /\ _schedules_by_uid' = fresh.by_uid
                   /\ _schedules_by_headcode' = fresh.by_headcode
                   /\ _schedule_count' = fresh.schedule_count
                   /\ last'.raised = fresh.raised
                   /\ last'.log = fresh.log
      ]_vars

\* clear_cache has acted on a manager that had ingested every message it may
C20_Witness ==
    /\ last.op = "clear_cache"
    /\ _message_count = MaxMessages
    /\ _schedules_by_uid = EmptyDict
    /\ DOMAIN _schedules_by_headcode = {}
    /\ _schedule_count = 0

(***************************************************************************)
(* The order of the lists of the headcode index, under Spec                *)
(***************************************************************************)
\* the step is a create/update that is valid today and that returned
StoredStep == ValidCreateOrUpdateStep /\ last'.raised = "None"

\* the positions of list whose schedule has the unique id
PositionsOf(list, train_uid) == {i \in 1..Len(list) : UidOf(list[i]) = train_uid}

\* after the step, lookup by headcode returns the head of the list, or None
HeadIsReturned ==
    \A headcode \in QueryHeadcodes :
        get_schedule_for_headcode(headcode)' =
            IF headcode \in DOMAIN _schedules_by_headcode'
            THEN Head(_schedules_by_headcode'[headcode])
            ELSE NoPayload

\* the step stores schedule X: each list of a headcode of X is the old list
\* without the entries of X's id, then X
StoredAtTheEnd ==
    LET schedule == last'.message.JsonScheduleV1
    IN  \A headcode \in _extract_headcodes(schedule) :
            /\ headcode \in DOMAIN _schedules_by_headcode'
            /\ _schedules_by_headcode'[headcode] =
                   Append(WithoutUid(Lookup(_schedules_by_headcode, headcode, <<>>),
                                     UidOf(schedule)),
                          schedule)

\* the step stores schedule X, which is now the most recently ingested one:
\* no list has an entry of X's id before an entry of another id
LatestIsLast ==
    LET train_uid == UidOf(last'.message.JsonScheduleV1)
    IN  \A headcode \in DOMAIN _schedules_by_headcode' :
            LET list == _schedules_by_headcode'[headcode]
            IN  \A i \in PositionsOf(list, train_uid) : i = Len(list)

(* C21: a valid create/update of schedule X removes the entries with X's   *)
(* id from the list of each headcode that X carries and appends X at the   *)
(* end, so that every list is ordered by the time of the latest successful *)
(* create/update of each listed schedule (the schedule stored last is last *)
(* in every list that holds it); lookup by headcode returns the head of    *)
(* the list, or None when the headcode has no list.                        *)
C21_ListsOrderedByLatestIngest ==
    [][ /\ StoredStep => (StoredAtTheEnd /\ LatestIsLast)
        /\ HeadIsReturned
      ]_vars

\* C21 on the steps that leave no entry of X under a headcode that X has
\* lost: it fails on no other
C21_HoldsWhenHeadcodesAreKept ==
    [][ (StoredStep
           /\ LET schedule == last'.message.JsonScheduleV1
              IN  \A headcode \in DOMAIN _schedules_by_headcode :
                      PositionsOf(_schedules_by_headcode[headcode],
                                  UidOf(schedule)) # {}
                          => headcode \in _extract_headcodes(schedule))
            => (StoredAtTheEnd /\ LatestIsLast /\ HeadIsReturned)
      ]_vars

(***************************************************************************)
(* Events without a transaction kind.  A behaviour is one call of          *)
(* process_vstp_message with such an event, on a manager that has ingested *)
(* one event before.                                                       *)
(***************************************************************************)
\* the event ingested before: nothing stored, X stored, Y stored
SeedMessages ==
    {NoEnvelope,
     Message(Payload("Create", "X", Missing, Missing, OnlyA)),
     Message(Payload("Create", "Y", Missing, Missing, OnlyA))}

\* payloads with a unique id and no transaction_type key, with every
\* validity window and every shape of location list
KindlessPayloads ==
    {Payload(Missing, uid, start, end, locations) :
        uid \in UIDs,
        start \in {Missing, "2025-12-28", "2025-12-29"},
        end \in {Missing, "28/12/2025", "2025-12-28"},
        locations \in IndexLocations \cup {OnlyA}}

InitKindless ==
    \E seed \in SeedMessages :
        LET r == process_vstp_message(seed, 1, EmptyDict, [k \in {} |-> <<>>], 0)
        IN  /\ _schedules_by_uid = r.by_uid
            /\ _schedules_by_headcode = r.by_headcode
            /\ _schedule_count = r.schedule_count
            /\ _message_count = 1
            /\ today \in 1..MaxDay
            /\ last = Call("process_vstp_message", seed, r.log, r.raised, FALSE)

NextKindless ==
    \E payload \in KindlessPayloads : _message_count = 1 /\ Ingest(Message(payload))

SpecKindless == InitKindless /\ [][NextKindless]_vars

\* the same payload with kind Create
AsCreate(schedule) == [schedule EXCEPT !.transaction_type = "Create"]

\* a store with the kind of every stored schedule read as Create
PrimaryAsCreate(by_uid) == [uid \in DOMAIN by_uid |-> AsCreate(by_uid[uid])]
SecondaryAsCreate(by_headcode) ==
    [headcode \in DOMAIN by_headcode |->
        [i \in 1..Len(by_headcode[headcode]) |-> AsCreate(by_headcode[headcode][i])]]

\* the step ingests a payload with a unique id and no transaction kind
KindlessStep ==
    /\ IngestStep
    /\ last'.message.envelope = "present"
    /\ last'.message.JsonScheduleV1.transaction_type = Missing
    /\ Truthy(last'.message.JsonScheduleV1.CIF_train_uid)

\* the step leaves the store that the same payload with kind Create leaves
SameAsCreate ==
    LET schedule == last'.message.JsonScheduleV1
        create == process_vstp_message(Message(AsCreate(schedule)), today,
                                       _schedules_by_uid, _schedules_by_headcode,
                                       _schedule_count)
    IN  /\ PrimaryAsCreate(_schedules_by_uid') = PrimaryAsCreate(create.by_uid)
        /\ SecondaryAsCreate(_schedules_by_headcode') =
               SecondaryAsCreate(create.by_headcode)
        /\ _schedule_count' = create.schedule_count
        /\ last'.raised = create.raised
        /\ last'.log = create.log

\* the payload of the step is in the primary index and in the list of each
\* headcode that it carries
StoredInBothIndices ==
    LET schedule == last'.message.JsonScheduleV1
    IN  /\ Lookup(_schedules_by_uid', UidOf(schedule), NoPayload) = schedule
        /\ \A headcode \in _extract_headcodes(schedule) :
               schedule \in Listed(_schedules_by_headcode', headcode)

(* C22: an event whose payload has a unique id and no transaction kind is  *)
(* handled like a Create: if it is valid today it is stored in both        *)
(* indices, and the store is left as the same payload with kind Create     *)
(* leaves it.                                                              *)
C22_NoKindIsCreate ==
    [][ KindlessStep
            => /\ SameAsCreate
               /\ _is_schedule_valid_today(last'.message.JsonScheduleV1, today)
                      => StoredInBothIndices
      ]_vars

\* C22 without the exception of C11: the store is always the one that the
\* Create leaves, and a payload whose call returns is in both indices
C22_HoldsWhenReturned ==
    [][ KindlessStep
            => /\ SameAsCreate
               /\ (_is_schedule_valid_today(last'.message.JsonScheduleV1, today)
                      /\ last'.raised = "None")
                      => StoredInBothIndices
      ]_vars

(***************************************************************************)
(* The counters, under Spec                                                *)
(***************************************************************************)
\* total_schedules of get_statistics is the size of the primary index
CountIsSizeOfPrimary ==
    get_statistics.total_schedules = Cardinality(DOMAIN _schedules_by_uid)

(* C23: in every reachable state the schedule count that get_statistics    *)
(* reports is the number of entries of the primary index, and no step      *)
(* makes the message count smaller.                                        *)
C23_CountersAreTrue ==
    /\ [](CountIsSizeOfPrimary)
    /\ [][_message_count' >= _message_count]_vars

\* C23 without the exception of C11: a call that returns leaves a true
\* count when it found one, and the message count never gets smaller
C23_HoldsWhenReturned ==
    [][ /\ (CountIsSizeOfPrimary /\ last'.raised = "None") => CountIsSizeOfPrimary'
        /\ _message_count' >= _message_count
      ]_vars

(* C24: every record that classify_service returns is coherent: a tag list *)
(* that is not empty comes with is_special, alert_worthy and a type other  *)
(* than unknown; is_freight and is_passenger are not both true; and        *)
(* is_freight comes with alert_worthy.                                     *)
C24_RecordIsCoherent ==
    Classified
    => /\ Verdict.special_types # <<>>
              => /\ Verdict.is_special
                 /\ Verdict.alert_worthy
                 /\ Verdict.service_type # "unknown"
       /\ ~(Verdict.is_freight /\ Verdict.is_passenger)
       /\ Verdict.is_freight => Verdict.alert_worthy

\* a charter with a freight category has been classified: it is returned
\* as a special, alert-worthy passenger train that is no freight
C24_Witness ==
    /\ Classified
    /\ HasAttributes(last.vstp_data)
    /\ last.vstp_data.CIF_train_category \in DOMAIN FREIGHT_CATEGORIES
    /\ Verdict.special_types = <<"charter">>
    /\ Verdict.service_type = "passenger"
    /\ Verdict.is_special /\ Verdict.alert_worthy
    /\ Verdict.is_passenger /\ ~Verdict.is_freight

====
